---- MODULE Spec2Model ----
(***************************************************************************)
(* The field-list state machine of the two AdminUI page components:        *)
(*   "builder"  src/src/app/page.tsx   (palette, MAX_FIELDS cap, add)      *)
(*   "fixed"    src/unnamed/part_000   (three preset fields, no add)       *)
(* Each React handler is one action.  A handler reads the state captured   *)
(* by the closure of the last render (`rendered` for the `fields` binding) *)
(* and its functional updates (setFields(prev => ...)) apply to the latest *)
(* list (`fields`).  In Spec a render follows every event, as React does   *)
(* for discrete input events.                                              *)
(***************************************************************************)
EXTENDS Integers, Sequences, FiniteSets, TLC

VARIABLES
    variant,    \* which page component is mounted: "builder" or "fixed"
    fields,     \* useState<Field[]>: the latest field list
    rendered,   \* the `fields` binding seen by the handlers of the last render
    editingId,  \* useState<string | null>
    editLabel,  \* useState("")
    editType,   \* useState<keyof FieldTypes>("text")
    editClass,  \* useState("")
    showModal,  \* useState(false)
    activeId,   \* useState<string | null>
    dndActive,  \* the draggable DndContext holds as active (None when no gesture)
    clock,      \* the last reading of Date.now()
    steps,      \* events delivered so far (exploration counter)
    last,       \* the last event delivered: [op, a, o]
    opened      \* the last edit session: the instance that seeded the draft,
                \* the index it had then, and the draft keys changed since

vars == <<variant, fields, rendered, editingId, editLabel, editType, editClass,
          showModal, activeId, dndActive, clock, steps, last, opened>>

----------------------------------------------------------------------------
(* Program constants and bounds *)

MAX_FIELDS == 10

\* Exploration bounds: events delivered in Spec; events other than add
\* delivered in SpecCap; events delivered in SpecStale
MaxEvents == 6
MaxCapEvents == 2
MaxStaleEvents == 5

\* Readings of Date.now()
ClockReadings == {0, 1}

None == "null"
ForeignId == "ghost"
FormAreaId == "form-area"

\* `undefined`, as an array element
Undefined == [undefined |-> TRUE]

FieldTypeTags == {"text", "textarea", "date"}

availableFields ==
    << [id |-> "text", type |-> "text", label |-> "Text Field"],
       [id |-> "textarea", type |-> "textarea", label |-> "Textarea Field"],
       [id |-> "date", type |-> "date", label |-> "Date Field"] >>

initialFields ==
    << [id |-> "1", type |-> "text", label |-> "Text Field", className |-> "w-full"],
       [id |-> "2", type |-> "textarea", label |-> "Textarea Field", className |-> "w-full"],
       [id |-> "3", type |-> "date", label |-> "Date Field", className |-> "w-full"] >>

\* Values typed into the modal's inputs
DraftLabels == {"X"}
DraftClasses == {"text-red-500"}

----------------------------------------------------------------------------
(* JavaScript helpers *)

Min(a, b) == IF a < b THEN a ELSE b
Max(a, b) == IF a > b THEN a ELSE b

\* { ...f, ...patch }
Spread(f, patch) ==
    [k \in DOMAIN f \cup DOMAIN patch |->
        IF k \in DOMAIN patch THEN patch[k] ELSE f[k]]

\* items.findIndex((item) => item.id === id): 0-based, -1 when absent
FindIndex(items, id) ==
    LET hits == {i \in 1..Len(items) : items[i].id = id}
    IN  IF hits = {} THEN -1
        ELSE (CHOOSE i \in hits : \A j \in hits : i <= j) - 1

\* fields.find((f) => f.id === id): the element, or Undefined
Find(items, id) ==
    LET i == FindIndex(items, id)
    IN  IF i = -1 THEN Undefined ELSE items[i + 1]

\* (mutant) the draft seeded with the rendered default: field.className || "w-full"
ClassOrEmpty_asRendered(f) ==
    IF "className" \in DOMAIN f /\ f.className # "" THEN f.className ELSE "w-full"

\* field.className || ""
ClassOrEmpty(f) ==
    IF "className" \in DOMAIN f /\ f.className # "" THEN f.className ELSE ""

\* Array.prototype.splice start normalisation
SpliceStart(start, len) ==
    IF start < 0 THEN Max(len + start, 0) ELSE Min(start, len)

\* array with the element at 0-based position p removed (p < Len(array))
RemoveAt(array, p) ==
    [i \in 1..(Len(array) - 1) |-> IF i <= p THEN array[i] ELSE array[i + 1]]

\* array with item inserted so that it gets 0-based position p (p <= Len(array))
InsertAt(array, p, item) ==
    [i \in 1..(Len(array) + 1) |->
        IF i <= p THEN array[i] ELSE IF i = p + 1 THEN item ELSE array[i - 1]]

\* arrayMove of @dnd-kit/sortable:
\*   newArray = array.slice();
\*   newArray.splice(to < 0 ? newArray.length + to : to, 0, newArray.splice(from, 1)[0]);
\* The insertion index is computed before the removal runs.
ArrayMove(array, from, to) ==
    LET len     == Len(array)
        target  == IF to < 0 THEN len + to ELSE to
        rmAt    == SpliceStart(from, len)
        removed == IF rmAt < len THEN array[rmAt + 1] ELSE Undefined
        rest    == IF rmAt < len THEN RemoveAt(array, rmAt) ELSE array
    IN  InsertAt(rest, SpliceStart(target, Len(rest)), removed)

Ids(items) == {items[i].id : i \in {k \in 1..Len(items) : items[k] # Undefined}}

\* The component is mounted as long as rendering the list does not throw
Mounted == \A i \in 1..Len(fields) : fields[i] # Undefined

----------------------------------------------------------------------------
(* Initial state *)

Init ==
    /\ variant \in {"builder", "fixed"}
    /\ fields = IF variant = "builder" THEN << >> ELSE initialFields
    /\ rendered = fields
    /\ editingId = None
    /\ editLabel = ""
    /\ editType = "text"
    /\ editClass = ""
    /\ showModal = FALSE
    /\ activeId = None
    /\ dndActive = None
    /\ clock = 0
    /\ steps = 0
    /\ last = [op |-> "init", a |-> None, o |-> None]
    /\ opened = [field |-> Undefined, touched |-> {}, at |-> -1]

----------------------------------------------------------------------------
(* Handlers *)

\* (mutant) the label numbered with fields.length instead of fields.length + 1
NewField_zeroBased(fieldType, now, snapshot) ==
    Spread(fieldType,
           [id |-> fieldType.id \o "-" \o ToString(now),
            label |-> fieldType.label \o " " \o ToString(Len(snapshot))])

\* handleAddField(fieldType), with Date.now() returning `now`
NewField(fieldType, now, snapshot) ==
    Spread(fieldType,
           [id |-> fieldType.id \o "-" \o ToString(now),
            label |-> fieldType.label \o " " \o ToString(Len(snapshot) + 1)])

\* (mutant) the cap test written with > instead of >=
AddedFields_offByOne(snapshot, prev, fieldType, now) ==
    IF Len(snapshot) > MAX_FIELDS
    THEN prev
    ELSE Append(prev, NewField(fieldType, now, snapshot))

AddedFields(snapshot, prev, fieldType, now) ==
    IF Len(snapshot) >= MAX_FIELDS
    THEN prev
    ELSE Append(prev, NewField(fieldType, now, snapshot))

handleAddField(fieldType, now) ==
    /\ variant = "builder"
    /\ now >= clock
    /\ clock' = now
    /\ fields' = AddedFields(rendered, fields, fieldType, now)
    /\ last' = [op |-> "add", a |-> fieldType.id,
                o |-> IF Len(rendered) >= MAX_FIELDS THEN "warn" ELSE "ok"]
    /\ UNCHANGED <<variant, editingId, editLabel, editType, editClass, showModal,
                   activeId, dndActive, opened>>

\* (mutant) handleDragStart that also closes the edit modal
handleDragStart_closesModal(id) ==
    /\ dndActive = None
    /\ dndActive' = id
    /\ activeId' = id
    /\ showModal' = FALSE
    /\ last' = [op |-> "beginDrag", a |-> id, o |-> None]
    /\ UNCHANGED <<variant, fields, editingId, editLabel, editType, editClass,
                   clock, opened>>

\* handleDragStart(event): DndContext picks up the draggable `id`
handleDragStart(id) ==
    /\ dndActive = None
    /\ dndActive' = id
    /\ activeId' = id
    /\ last' = [op |-> "beginDrag", a |-> id, o |-> None]
    /\ UNCHANGED <<variant, fields, editingId, editLabel, editType, editClass,
                   showModal, clock, opened>>

\* (mutant) handleDragEnd of page.tsx without `if (!over) return`
DroppedBuilder_noNullCheck(snapshot, items, active, over) ==
    IF active # over
    THEN ArrayMove(items, FindIndex(items, active), FindIndex(items, over))
    ELSE items

\* (mutant) handleDragEnd of page.tsx calling arrayMove(items, newIndex, oldIndex)
DroppedBuilder_swappedIndices(snapshot, items, active, over) ==
    IF over = None THEN items
    ELSE IF active # over
         THEN ArrayMove(items, FindIndex(items, over), FindIndex(items, active))
         ELSE items

\* handleDragEnd of page.tsx: the list after a drop of `active` on `over`
DroppedBuilder(snapshot, items, active, over) ==
    IF over = None THEN items
    ELSE IF active # over
         THEN ArrayMove(items, FindIndex(items, active), FindIndex(items, over))
         ELSE items

\* (mutant) handleDragEnd of part_000 removing the dragged field
DroppedFixed_dropsDragged(snapshot, items, active, over) ==
    IF active # over
    THEN LET oldIndex == FindIndex(snapshot, active)
             newIndex == FindIndex(snapshot, over)
         IN  IF oldIndex # -1 /\ newIndex # -1
             THEN RemoveAt(items, oldIndex)
             ELSE items
    ELSE items

\* (mutant) handleDragEnd of part_000 calling arrayMove(items, newIndex, oldIndex)
DroppedFixed_swappedIndices(snapshot, items, active, over) ==
    IF active # over
    THEN LET oldIndex == FindIndex(snapshot, active)
             newIndex == FindIndex(snapshot, over)
         IN  IF oldIndex # -1 /\ newIndex # -1
             THEN ArrayMove(items, newIndex, oldIndex)
             ELSE items
    ELSE items

\* handleDragEnd of part_000: indices from the closure's `fields`
DroppedFixed(snapshot, items, active, over) ==
    IF active # over
    THEN LET oldIndex == FindIndex(snapshot, active)
             newIndex == FindIndex(snapshot, over)
         IN  IF oldIndex # -1 /\ newIndex # -1
             THEN ArrayMove(items, oldIndex, newIndex)
             ELSE items
    ELSE items

Dropped(snapshot, items, active, over) ==
    IF variant = "builder"
    THEN DroppedBuilder(snapshot, items, active, over)
    ELSE DroppedFixed(snapshot, items, active, over)

\* handleDragEnd(event): the gesture ends over `over` (None: no target)
handleDragEnd(over) ==
    /\ dndActive # None
    /\ dndActive' = None
    /\ activeId' = None
    /\ fields' = Dropped(rendered, fields, dndActive, over)
    /\ last' = [op |-> "drop", a |-> dndActive, o |-> over]
    /\ UNCHANGED <<variant, editingId, editLabel, editType, editClass, showModal,
                   clock, opened>>

\* The sensor aborts the gesture: DndContext calls onDragCancel, for which
\* neither component passes a handler.
dragCancel ==
    /\ dndActive # None
    /\ dndActive' = None
    /\ last' = [op |-> "cancelDrag", a |-> dndActive, o |-> None]
    /\ UNCHANGED <<variant, fields, editingId, editLabel, editType, editClass,
                   showModal, activeId, clock, opened>>

\* (mutant) openEditModal without `if (!field) return`
openEditModal_noGuard(id) ==
    LET field == Find(rendered, id)
    IN  /\ editingId' = id
        /\ IF field = Undefined
           THEN UNCHANGED <<editLabel, editType, editClass>>
           ELSE /\ editLabel' = field.label
                /\ editType' = field.type
                /\ editClass' = ClassOrEmpty(field)
        /\ showModal' = TRUE
        /\ opened' = IF field = Undefined THEN opened
                      ELSE [field |-> field, touched |-> {},
                            at |-> FindIndex(rendered, id)]
        /\ last' = [op |-> "open", a |-> id, o |-> None]
        /\ UNCHANGED <<variant, fields, activeId, dndActive, clock>>

\* openEditModal(id)
openEditModal(id) ==
    LET field == Find(rendered, id)
    IN  /\ IF field = Undefined
           THEN UNCHANGED <<editingId, editLabel, editType, editClass, showModal>>
           ELSE /\ editingId' = id
                /\ editLabel' = field.label
                /\ editType' = field.type
                /\ editClass' = ClassOrEmpty(field)
                /\ showModal' = TRUE
        /\ opened' = IF field = Undefined THEN opened
                      ELSE [field |-> field, touched |-> {},
                            at |-> FindIndex(rendered, id)]
        /\ last' = [op |-> "open", a |-> id, o |-> None]
        /\ UNCHANGED <<variant, fields, activeId, dndActive, clock>>

\* onChange / onValueChange of the modal's three inputs
setDraftField(key, value) ==
    /\ showModal
    /\ editLabel' = IF key = "label" THEN value ELSE editLabel
    /\ editType' = IF key = "type" THEN value ELSE editType
    /\ editClass' = IF key = "className" THEN value ELSE editClass
    /\ last' = [op |-> "setDraftField", a |-> key, o |-> value]
    /\ opened' = [opened EXCEPT !.touched = @ \cup {key}]
    /\ UNCHANGED <<variant, fields, editingId, showModal, activeId, dndActive,
                   clock>>

\* (mutant) the map without its id test: every instance takes the draft
SavedFields_noTest(prev, id, label, type, class) ==
    [i \in 1..Len(prev) |->
        Spread(prev[i], [label |-> label, type |-> type, className |-> class])]

\* prev.map((f) => f.id === editingId ? {...f, label, type, className} : f)
SavedFields(prev, id, label, type, class) ==
    [i \in 1..Len(prev) |->
        IF prev[i].id = id
        THEN Spread(prev[i], [label |-> label, type |-> type, className |-> class])
        ELSE prev[i]]

\* handleSaveEdit()
handleSaveEdit ==
    /\ showModal
    /\ fields' = SavedFields(fields, editingId, editLabel, editType, editClass)
    /\ showModal' = FALSE
    /\ IF variant = "builder"
       THEN UNCHANGED <<editingId, editLabel, editType, editClass>>
       ELSE /\ editingId' = None
            /\ editLabel' = ""
            /\ editType' = "text"
            /\ editClass' = ""
    /\ last' = [op |-> "save", a |-> editingId, o |-> None]
    /\ UNCHANGED <<variant, activeId, dndActive, clock, opened>>

\* (mutant) dismissing the modal commits the draft
dismissModal_commits ==
    /\ showModal
    /\ showModal' = FALSE
    /\ fields' = SavedFields(fields, editingId, editLabel, editType, editClass)
    /\ last' = [op |-> "cancel", a |-> editingId, o |-> None]
    /\ UNCHANGED <<variant, editingId, editLabel, editType, editClass,
                   activeId, dndActive, clock, opened>>

\* Dialog onOpenChange(false): the modal is dismissed
dismissModal ==
    /\ showModal
    /\ showModal' = FALSE
    /\ last' = [op |-> "cancel", a |-> editingId, o |-> None]
    /\ UNCHANGED <<variant, fields, editingId, editLabel, editType, editClass,
                   activeId, dndActive, clock, opened>>

----------------------------------------------------------------------------
(* Events: what the user and the input layer can deliver.  A handler runs  *)
(* to completion and the component renders again before the next event.    *)

\* What the input layer can report: the sortable items of the last render
\* and, as a drop target of page.tsx, the FormArea droppable around them.
DragSources == Ids(rendered)

DropTargets ==
    Ids(rendered) \cup {None} \cup
        (IF variant = "builder" THEN {FormAreaId} ELSE {})

EditTargets == Ids(rendered)

\* One event of the first `budget` ones, handled by `handler`
Event(handler, budget) ==
    /\ Mounted
    /\ steps < budget
    /\ handler
    /\ rendered' = fields'
    /\ steps' = steps + 1

AddWithin(budget) ==
    \E k \in 1..Len(availableFields), now \in ClockReadings :
        Event(handleAddField(availableFields[k], now), budget)

\* `foreign`: ids of no field that the caller may pass all the same
BeginDragWithin(foreign, budget) ==
    \E id \in DragSources \cup foreign : Event(handleDragStart(id), budget)

DropWithin(foreign, budget) ==
    \E over \in DropTargets \cup foreign : Event(handleDragEnd(over), budget)

CancelDragWithin(budget) == Event(dragCancel, budget)

\* The pencil buttons are behind the overlay while the modal is open
OpenWithin(foreign, budget) ==
    \E id \in EditTargets \cup foreign :
        ~showModal /\ Event(openEditModal(id), budget)

SetDraftWithin(budget) ==
    \/ \E v \in DraftLabels : Event(setDraftField("label", v), budget)
    \/ \E v \in FieldTypeTags : Event(setDraftField("type", v), budget)
    \/ \E v \in DraftClasses : Event(setDraftField("className", v), budget)

SaveWithin(budget) == Event(handleSaveEdit, budget)

CancelWithin(budget) == Event(dismissModal, budget)

Add == AddWithin(MaxEvents)
BeginDrag == BeginDragWithin({}, MaxEvents)
Drop == DropWithin({}, MaxEvents)
CancelDrag == CancelDragWithin(MaxEvents)
Open == OpenWithin({}, MaxEvents)
SetDraft == SetDraftWithin(MaxEvents)
Save == SaveWithin(MaxEvents)
Cancel == CancelWithin(MaxEvents)

Next ==
    \/ Add
    \/ BeginDrag
    \/ Drop
    \/ CancelDrag
    \/ Open
    \/ SetDraft
    \/ Save
    \/ Cancel

Spec == Init /\ [][Next]_vars

----------------------------------------------------------------------------
(* The handlers called with ids of no field: the total-over-malformed-ids  *)
(* reading of the operations.                                              *)

NextForeign ==
    \/ Add
    \/ BeginDragWithin({ForeignId}, MaxEvents)
    \/ DropWithin({ForeignId}, MaxEvents)
    \/ CancelDrag
    \/ OpenWithin({ForeignId}, MaxEvents)
    \/ SetDraft
    \/ Save
    \/ Cancel

SpecForeign == Init /\ [][NextForeign]_vars

----------------------------------------------------------------------------
(* Lists up to the cap: adds of the first template are not counted, the    *)
(* other events are.                                                       *)

CapAdd ==
    \E now \in ClockReadings :
        /\ Mounted
        /\ handleAddField(availableFields[1], now)
        /\ rendered' = fields'
        /\ UNCHANGED steps

InitCap == Init /\ variant = "builder"

NextCap ==
    \/ CapAdd
    \/ BeginDragWithin({}, MaxCapEvents)
    \/ DropWithin({}, MaxCapEvents)
    \/ CancelDragWithin(MaxCapEvents)
    \/ OpenWithin({}, MaxCapEvents)
    \/ SetDraftWithin(MaxCapEvents)
    \/ SaveWithin(MaxCapEvents)
    \/ CancelWithin(MaxCapEvents)

SpecCap == InitCap /\ [][NextCap]_vars

----------------------------------------------------------------------------
(* Handlers running on a stale closure: several events are handled before  *)
(* the component renders again, so the handlers still see the `fields` of   *)
(* the last render while their functional updates apply to the latest list. *)

\* One event of the first `budget` ones, handled without a render after it
StaleEvent(handler, budget) ==
    /\ Mounted
    /\ steps < budget
    /\ handler
    /\ UNCHANGED rendered
    /\ steps' = steps + 1

\* The component renders: the closures of the handlers capture the latest list
Render ==
    /\ Mounted
    /\ rendered # fields
    /\ rendered' = fields
    /\ UNCHANGED <<variant, fields, editingId, editLabel, editType, editClass,
                   showModal, activeId, dndActive, clock, steps, last, opened>>

StaleAdd ==
    \E k \in 1..Len(availableFields), now \in ClockReadings :
        StaleEvent(handleAddField(availableFields[k], now), MaxStaleEvents)

StaleBeginDrag ==
    \E id \in DragSources : StaleEvent(handleDragStart(id), MaxStaleEvents)

StaleDrop ==
    \E over \in DropTargets : StaleEvent(handleDragEnd(over), MaxStaleEvents)

StaleCancelDrag == StaleEvent(dragCancel, MaxStaleEvents)

StaleOpen ==
    \E id \in EditTargets :
        ~showModal /\ StaleEvent(openEditModal(id), MaxStaleEvents)

StaleSetDraft ==
    \/ \E v \in DraftLabels : StaleEvent(setDraftField("label", v), MaxStaleEvents)
    \/ \E v \in FieldTypeTags : StaleEvent(setDraftField("type", v), MaxStaleEvents)
    \/ \E v \in DraftClasses : StaleEvent(setDraftField("className", v), MaxStaleEvents)

StaleSave == StaleEvent(handleSaveEdit, MaxStaleEvents)

StaleCancel == StaleEvent(dismissModal, MaxStaleEvents)

NextStale ==
    \/ StaleAdd
    \/ StaleBeginDrag
    \/ StaleDrop
    \/ StaleCancelDrag
    \/ StaleOpen
    \/ StaleSetDraft
    \/ StaleSave
    \/ StaleCancel
    \/ Render

SpecStale == Init /\ [][NextStale]_vars

----------------------------------------------------------------------------
(* Properties *)

IdsDistinct(items) ==
    \A i, j \in 1..Len(items) :
        (i # j /\ items[i] # Undefined /\ items[j] # Undefined)
            => items[i].id # items[j].id

\* C1: the list never holds more than MAX_FIELDS fields, and an add issued
\* when it already holds MAX_FIELDS leaves the list as it is.
C1_CapRespected ==
    /\ [](Len(fields) <= MAX_FIELDS)
    /\ [][(last'.op = "add" /\ Len(fields) >= MAX_FIELDS) => fields' = fields]_vars

\* C1 witness: an add was refused with the warning on a full list.
C1_Witness ==
    /\ last.op = "add"
    /\ last.o = "warn"
    /\ Len(fields) = MAX_FIELDS

\* C2: no two field instances of the list have the same id.
C2_IdsUnique == IdsDistinct(fields)

\* C3: when no drag gesture is in progress (the last one was resolved by a
\* drop or by a cancellation), activeId is none.
C3_IdleAfterResolution == dndActive = None => activeId = None

\* C4: a drop with no target, or onto the dragged field itself, leaves the
\* list unchanged.
C4_NoTargetDropKeepsList ==
    [][(last'.op = "drop" /\ (last'.o = None \/ last'.o = last'.a))
          => fields' = fields]_vars

\* C4 witness: a field of the list that is not its last element was dropped
\* with no target.
C4_Witness ==
    /\ last.op = "drop"
    /\ last.o = None
    /\ last.a \in Ids(fields)
    /\ FindIndex(fields, last.a) < Len(fields) - 1

\* C5: a drop onto an id that is no field of the list (and is not the
\* dragged id) leaves the list unchanged.
C5_UnknownTargetKeepsList ==
    [][(last'.op = "drop" /\ last'.o # None /\ last'.o # last'.a
            /\ last'.o \notin Ids(fields))
          => fields' = fields]_vars

\* C6: beginDrag with an id that is not in the list still sets activeId to
\* it, and the drop that follows leaves the list unchanged and clears
\* activeId, whatever it is dropped on.
C6_UnknownSourceDropIsNoOp ==
    [][/\ last'.op = "beginDrag" => activeId' = last'.a
       /\ (last'.op = "drop" /\ last'.a \notin Ids(fields))
             => (fields' = fields /\ activeId' = None)]_vars

\* C7: a drop of a field onto another field of the list puts the dragged
\* field at the index the target held before the drop, and the other fields
\* keep their order.
C7_DropRelocates ==
    [][(last'.op = "drop" /\ last'.a # last'.o
            /\ last'.a \in Ids(fields) /\ last'.o \in Ids(fields))
          => LET oldIndex == FindIndex(fields, last'.a)
                 newIndex == FindIndex(fields, last'.o)
             IN  /\ Len(fields') = Len(fields)
                 /\ fields'[newIndex + 1] = fields[oldIndex + 1]
                 /\ RemoveAt(fields', newIndex) = RemoveAt(fields, oldIndex)]_vars

\* C7 witness: in the list of three, the first field was dropped on the last
\* one and now is the last.
C7_Witness ==
    /\ variant = "fixed"
    /\ steps = 2
    /\ last = [op |-> "drop", a |-> "1", o |-> "3"]
    /\ Len(fields) = 3
    /\ fields[3].id = "1"

\* C8: in a list whose ids are distinct, dropping a field on the field at
\* index i and then dropping it on the field that holds its original index j
\* restores the list.  (Every value the list takes is first seen right after
\* the initial render, an add, a drop or a save, so it is evaluated there.)
C8_ReorderInverse ==
    (last.op \in {"init", "add", "drop", "save"} /\ Mounted /\ IdsDistinct(fields)) =>
        \A j, i \in 0..(Len(fields) - 1) :
            LET id    == fields[j + 1].id
                moved == Dropped(fields, fields, id, fields[i + 1].id)
                back  == Dropped(moved, moved, id, moved[j + 1].id)
            IN  /\ moved[i + 1].id = id
                /\ back = fields

\* C8 witness: the first of three fields was moved away and a second drop
\* brought it back to index 0, restoring the initial order.
C8_Witness ==
    /\ variant = "fixed"
    /\ steps = 4
    /\ last = [op |-> "drop", a |-> "1", o |-> "2"]
    /\ fields = initialFields

\* C9: opening the modal, changing the draft and dismissing the modal never
\* change the list.
C9_DiscardedEditKeepsList ==
    [][last'.op \in {"open", "setDraftField", "cancel"} => fields' = fields]_vars

\* C9 witness: the modal was dismissed after label, type and className of
\* the draft were changed, and the stored instance is the one found at open.
C9_Witness ==
    /\ last.op = "cancel"
    /\ opened.touched = {"label", "type", "className"}
    /\ opened.field # Undefined
    /\ Find(fields, opened.field.id) = opened.field
    /\ editLabel # opened.field.label
    /\ editType # opened.field.type

\* C10: open, one change of the draft label, save: the instance keeps its
\* id, its type and its className (absent stays absent).
C10_LabelOnlySave ==
    (last.op = "save" /\ opened.touched = {"label"} /\ opened.field # Undefined
        /\ last.a = opened.field.id)
      => LET f == Find(fields, last.a)
         IN  /\ f # Undefined
             /\ f.type = opened.field.type
             /\ ("className" \in DOMAIN f) = ("className" \in DOMAIN opened.field)
             /\ "className" \in DOMAIN f => f.className = opened.field.className

\* C11: after save the edit session is closed: the modal is closed,
\* editingId is none and the draft is back to its empty values.
C11_SaveClosesSession ==
    last.op = "save" =>
        /\ ~showModal
        /\ editingId = None
        /\ editLabel = ""
        /\ editType = "text"
        /\ editClass = ""

\* C12: an add on a list below the cap appends one instance and keeps the
\* others as they are and where they are; the new instance has the
\* template's type and the label "<template label> <its 1-based position>";
\* a drop keeps every instance as it is, labels included.
C12_AddAppendsNumbered ==
    [][/\ (last'.op = "add" /\ Len(fields) < MAX_FIELDS) =>
            LET new == fields'[Len(fields')]
                tpl == CHOOSE t \in {availableFields[k] : k \in 1..Len(availableFields)} :
                            t.id = last'.a
            IN  /\ Len(fields') = Len(fields) + 1
                /\ SubSeq(fields', 1, Len(fields)) = fields
                /\ new.type = tpl.type
                /\ new.label = tpl.label \o " " \o ToString(Len(fields'))
       /\ (last'.op = "drop" /\ last'.a \in Ids(fields)) =>
            \A i \in 1..Len(fields) : \E j \in 1..Len(fields') : fields'[j] = fields[i]
      ]_vars

\* C12 witness: a third field was added after a drop had reordered the
\* first two, and it is labelled 3.
C12_Witness ==
    /\ last.op = "add"
    /\ last.o = "ok"
    /\ Len(fields) = 3
    /\ fields[3].label = "Date Field 3"
    /\ fields[1].label = "Textarea Field 2"
    /\ fields[2].label = "Text Field 1"

\* C13: an instance created by add has a className, "w-full" for the
\* templates of page.tsx.
C13_AddedHasClassName ==
    (last.op = "add" /\ last.o = "ok") =>
        LET new == fields[Len(fields)]
        IN  /\ "className" \in DOMAIN new
            /\ new.className = "w-full"

\* C14: open(id) opens the modal exactly when id is the id of a field of the
\* list; then editingId is id and the draft is that field's label, type and
\* className ("" when it has none), whatever the draft held before; when id
\* is no field's, the modal stays closed and editingId and draft are kept.
C14_OpenSeedsDraft ==
    [][last'.op = "open" =>
          IF last'.a \in Ids(fields)
          THEN LET f == Find(fields, last'.a)
               IN  /\ ~showModal /\ showModal'
                   /\ editingId' = last'.a
                   /\ editLabel' = f.label
                   /\ editType' = f.type
                   /\ editClass' = IF "className" \in DOMAIN f THEN f.className ELSE ""
          ELSE /\ ~showModal /\ ~showModal'
               /\ UNCHANGED <<editingId, editLabel, editType, editClass>>
      ]_vars

\* C14 witness: in page.tsx a field without className was opened while the
\* draft still held the className saved to another field.
C14_Witness ==
    /\ variant = "builder"
    /\ last.op = "open"
    /\ showModal
    /\ editingId = last.a
    /\ editClass = ""
    /\ \E i \in 1..Len(fields) :
          /\ fields[i].id # last.a
          /\ "className" \in DOMAIN fields[i]
          /\ fields[i].className = "text-red-500"

\* C15: save keeps the sequence of ids and changes no instance whose id is
\* not editingId, also after drops moved the edited field since open; with
\* an editingId that is no field's id the mapping changes nothing.
C15_SaveTouchesOnlyEdited ==
    /\ [][last'.op = "save" =>
             /\ Len(fields') = Len(fields)
             /\ \A i \in 1..Len(fields) :
                   /\ fields'[i].id = fields[i].id
                   /\ fields[i].id # editingId => fields'[i] = fields[i]
         ]_vars
    /\ [](Mounted =>
             SavedFields(fields, ForeignId, editLabel, editType, editClass) = fields)

\* C15 witness: the saved field was moved by a drop between open and save,
\* and the new label reached it at its new index.
C15_Witness ==
    /\ last.op = "save"
    /\ opened.field # Undefined
    /\ opened.field.id = last.a
    /\ IdsDistinct(fields)
    /\ FindIndex(fields, last.a) # opened.at
    /\ Find(fields, last.a).label = "X"

\* C16: a drop that reorders moves the dragged field from the index it has
\* in the list the move is applied to, to the index the target has in that
\* list, also when the handler runs on the closure of an earlier render.
C16_IndicesOfLatestList ==
    [][(last'.op = "drop" /\ fields' # fields) =>
          fields' = ArrayMove(fields, FindIndex(fields, last'.a),
                                      FindIndex(fields, last'.o))
      ]_vars

\* C17: the drag session and the edit session do not interfere: beginning,
\* dropping or cancelling a drag changes neither editingId, the draft nor
\* showModal; open, setDraftField, save and cancel do not change activeId;
\* add changes none of them.
C17_SessionsIndependent ==
    [][/\ last'.op \in {"beginDrag", "drop", "cancelDrag", "add"} =>
              UNCHANGED <<editingId, editLabel, editType, editClass, showModal>>
       /\ last'.op \in {"open", "setDraftField", "save", "cancel", "add"} =>
              UNCHANGED activeId
      ]_vars

\* A reordering drop lands while the modal is open on an edited draft
C17_Witness ==
    /\ showModal
    /\ last.op = "drop"
    /\ last.a \in Ids(fields)
    /\ last.o \in Ids(fields) \ {last.a}
    /\ "label" \in opened.touched
    /\ editLabel = "X"

\* Number of positions of `items` holding exactly the element x
Occurrences(items, x) == Cardinality({i \in 1..Len(items) : items[i] = x})

\* C18: every drop, whatever the dragged id and the target are (in the list,
\* absent from it, or none), leaves a permutation of the list: same length,
\* no field lost, duplicated or altered.
C18_DropPermutes ==
    [][last'.op = "drop" =>
          /\ Len(fields') = Len(fields)
          /\ \A i \in 1..Len(fields) :
                Occurrences(fields', fields[i]) = Occurrences(fields, fields[i])
      ]_vars

\* Number of fields of `items` carrying the id
IdOccurrences(items, id) ==
    Cardinality({i \in 1..Len(items) : items[i] # Undefined /\ items[i].id = id})

\* C19: a placed field is never removed nor re-identified: every id of the
\* list is in the list of every later state, the length never decreases, and
\* the three-field page always holds the ids "1", "2", "3" once each.
C19_FieldsNeverRemoved ==
    /\ [][/\ Len(fields') >= Len(fields)
          /\ \A i \in 1..Len(fields) :
                IdOccurrences(fields', fields[i].id)
                    >= IdOccurrences(fields, fields[i].id)
         ]_vars
    /\ [](variant = "fixed" =>
             /\ Len(fields) = 3
             /\ \A id \in {"1", "2", "3"} : IdOccurrences(fields, id) = 1)

\* The three-field page after a drop that reordered it
C19_Witness ==
    /\ variant = "fixed"
    /\ last.op = "drop"
    /\ fields # initialFields
    /\ Ids(fields) = Ids(initialFields)

\* C20: whenever the modal is open, editingId is the id of a field of the list.
C20_OpenModalEditsListedField ==
    showModal => editingId \in Ids(fields)

\* The modal is open on a field that a drop has moved since it was opened
C20_Witness ==
    /\ showModal
    /\ last.op = "drop"
    /\ editingId \in Ids(fields)
    /\ FindIndex(fields, editingId) # opened.at

====
